---- MODULE Spec2Model ----
(***************************************************************************)
(* Record store of the appointment-booking application: three collections  *)
(* kept as whole serialized values in AsyncStorage, the appointment create *)
(* flows, the status/delete operations on appointments and the             *)
(* notification service.  Every handler is an async function: it suspends  *)
(* at AsyncStorage.getItem and AsyncStorage.setItem and runs to the next   *)
(* await without interruption.  A call path is therefore                   *)
(*   Call -> GetItem -> Resume -> SetItem [-> GetItem -> Resume -> SetItem] *)
(*        -> done -> Return.                                                *)
(***************************************************************************)
EXTENDS Integers, Sequences, FiniteSets, TLC

\* ------------------------------------------------------------------ bounds
MaxClock == 1       \* Date.now() takes the values 0..MaxClock
MaxCalls == 3       \* handler calls in a run whose calls are awaited one by one
MaxRaceCalls == 3   \* handler calls in a run whose calls may overlap
MaxDoctor == 1      \* the first MaxDoctor entries of availableDoctors are selectable
MaxPerStatus == 4   \* appointments of one status in a stored collection that is aggregated
MaxScreenCalls == 2 \* handler calls in a run of the create screens alone
MaxFaultCalls == 2  \* handler calls in a run on a store that may reject

\* The call paths that may be in flight at the same time.
Procs == {1, 2}

\* ------------------------------------------------------------ storage keys
KeyAppointments == "@MedicalApp:appointments"
KeyLegacyAppointments == "appointments"
STORAGE_KEY == "@MedicalApp:notifications"
KeyRegisteredUsers == "@MedicalApp:registeredUsers"
KeyUsers == "@MedicalApp:users"
Keys == {KeyAppointments, KeyLegacyAppointments, STORAGE_KEY, KeyRegisteredUsers, KeyUsers}

\* -------------------------------------------------------------------- text
\* Text that a handler takes apart (a typed date, a time slot) is the sequence
\* of its characters.
Digits == <<"0", "1", "2", "3", "4", "5", "6", "7", "8", "9">>

IsDigit(c) == \E d \in DOMAIN Digits : Digits[d] = c

DigitOf(c) == (CHOOSE d \in DOMAIN Digits : Digits[d] = c) - 1

\* parseInt of a run of decimal digits.
RECURSIVE ParseInt(_)
ParseInt(cs) ==
  IF cs = <<>> THEN 0
  ELSE ParseInt(SubSeq(cs, 1, Len(cs) - 1)) * 10 + DigitOf(cs[Len(cs)])

\* n.toString().padStart(2, '0') for 0 <= n < 100.
PadStart2(n) == <<Digits[(n \div 10) + 1], Digits[(n % 10) + 1]>>

\* String.prototype.split(sep): the pieces between the separators.
RECURSIVE Split(_, _)
Split(cs, sep) ==
  IF \A i \in DOMAIN cs : cs[i] # sep THEN <<cs>>
  ELSE LET k == CHOOSE i \in DOMAIN cs : cs[i] = sep /\ \A j \in 1..(i - 1) : cs[j] # sep
       IN <<SubSeq(cs, 1, k - 1)>> \o Split(SubSeq(cs, k + 1, Len(cs)), sep)

\* -------------------------------------------------------------- time slots
\* for (let hour = first; hour < end; hour++) push hh:00, push hh:30
RECURSIVE SlotsOfHours(_, _)
SlotsOfHours(hour, end) ==
  IF hour < end
  THEN << PadStart2(hour) \o <<":", "0", "0">>, PadStart2(hour) \o <<":", "3", "0">> >>
       \o SlotsOfHours(hour + 1, end)
  ELSE <<>>

\* Faulty variant: the loop runs while hour <= 18.
generateTimeSlotsThroughClosingHour == SlotsOfHours(9, 19)

generateTimeSlots == SlotsOfHours(9, 18)

\* ------------------------------------------------------------------- dates
\* A Date is a local calendar day, numbered in days since 1970-01-01, and the
\* milliseconds elapsed since that day's midnight.
DaysFromCivil(y, m, d) ==
  LET y2 == IF m <= 2 THEN y - 1 ELSE y
      era == y2 \div 400
      yoe == y2 - era * 400
      doy == (153 * ((m + 9) % 12) + 2) \div 5 + d - 1
      doe == yoe * 365 + yoe \div 4 - yoe \div 100 + doy
  IN era * 146097 + doe - 719468

\* new Date(year, monthIndex, day): months and days out of range carry over,
\* and a year 0..99 is taken as 1900 + year.
NewDate(year, monthIndex, day) ==
  LET y == IF year \in 0..99 THEN 1900 + year ELSE year
  IN [ day |-> DaysFromCivil(y + (monthIndex \div 12), (monthIndex % 12) + 1, 1) + day - 1,
       ms |-> 0 ]

\* The calendar day on which the clock starts; the clock `now` counts the
\* milliseconds since that day's midnight.
Today == [year |-> 2026, monthIndex |-> 10, date |-> 3]

\* new Date() read at the given clock value.
CurrentDate(clock) ==
  [ day |-> DaysFromCivil(Today.year, Today.monthIndex + 1, Today.date), ms |-> clock ]

\* new Date(new Date().setMonth(monthIndex)): same day of month and time of day.
SetMonth(clock, monthIndex) ==
  [ day |-> NewDate(Today.year, monthIndex, Today.date).day, ms |-> clock ]

\* a <= b on Dates.
NotAfter(a, b) == a.day < b.day \/ (a.day = b.day /\ a.ms <= b.ms)

\* /^(\d{2})\/(\d{2})\/(\d{4})$/
MatchesDateRegex(cs) ==
  /\ Len(cs) = 10
  /\ cs[3] = "/" /\ cs[6] = "/"
  /\ \A i \in {1, 2, 4, 5, 7, 8, 9, 10} : IsDigit(cs[i])

\* new Date(parseInt(year), parseInt(month) - 1, parseInt(day)) of DD/MM/YYYY.
DateOfInput(cs) ==
  LET parts == Split(cs, "/")
  IN NewDate(ParseInt(parts[3]), ParseInt(parts[2]) - 1, ParseInt(parts[1]))

validateDate(inputDate, clock) ==
  /\ MatchesDateRegex(inputDate)
  /\ NotAfter(CurrentDate(clock), DateOfInput(inputDate))
  /\ NotAfter(DateOfInput(inputDate), SetMonth(clock, Today.monthIndex + 3))

\* ------------------------------------------------------------------ inputs
availableDoctors ==
  << [id |-> "1", name |-> "Dr. João Silva", specialty |-> "Cardiologia"],
     [id |-> "2", name |-> "Dra. Maria Santos", specialty |-> "Pediatria"],
     [id |-> "3", name |-> "Dr. Pedro Oliveira", specialty |-> "Ortopedia"],
     [id |-> "4", name |-> "Dra. Ana Costa", specialty |-> "Dermatologia"],
     [id |-> "5", name |-> "Dr. Carlos Mendes", specialty |-> "Oftalmologia"] >>

NoDoctor == [id |-> "", name |-> "", specialty |-> ""]
DoctorChoices == {availableDoctors[i] : i \in 1..MaxDoctor} \cup {NoDoctor}

\* The signed-in user of useAuth(): a patient.
Patients == { [id |-> "p1", name |-> "Ana"], [id |-> "p2", name |-> "Beto"] }

\* useAuth() before sign-in and after sign-out: user is null, and
\* `user?.id || ''` and `user?.name || ''` are the empty string.
NoUser == [id |-> "", name |-> ""]

\* What is typed into the date field: nothing, or 10/12/2026.
DateInputs == {<<>>, <<"1", "0", "/", "1", "2", "/", "2", "0", "2", "6">>}

\* The selected time: none, or the first slot of the list.
TimeInputs == {<<>>, generateTimeSlots[1]}
Descriptions == {"retorno"}
Reasons == {"", "motivo"}
NewStatuses == {"confirmed", "cancelled"}
Statuses == {"pending", "confirmed", "cancelled"}
Ids == 0..MaxClock
UserIds == {u.id : u \in Patients} \cup {availableDoctors[i].id : i \in 1..MaxDoctor}

\* ---------------------------------------------------------------- the state
VARIABLES
  storage,     \* AsyncStorage: key -> stored value
  now,         \* the millisecond clock read by Date.now() and new Date()
  pc,          \* per call path: "idle", "get", "resume", "set", "done"
  op,          \* per call path: the handler running and its locals
  snap,        \* per call path: the value getItem resolved with
  buf,         \* per call path: the collection handed to setItem
  apptCount,   \* history: appointments created minus appointments deleted
  calls,       \* history: handler calls started so far
  serial       \* TRUE when the caller awaits each call before the next one

vars == <<storage, now, pc, op, snap, buf, apptCount, calls, serial>>

\* ---------------------------------------------------------------- the codec
\* A stored value: whether the key holds one, whether its text is JSON, and
\* the collection the text denotes.
Absent == [has |-> FALSE, json |-> TRUE, val |-> <<>>]

\* A stored text that is not JSON.
Unparseable == [has |-> TRUE, json |-> FALSE, val |-> <<>>]

\* Date.prototype.toJSON: the ISO text of the instant, a string.
toISOString(date) == [iso |-> TRUE, day |-> date.day, ms |-> date.ms]

\* JSON.stringify of a record: strings, numbers and booleans are written as
\* they are, and a Date, which only the payload of the appointment form holds
\* (in `date`, next to `description`), is written as its ISO text.
ToJSON(record) ==
  IF "description" \in DOMAIN record /\ "iso" \notin DOMAIN record.date
  THEN [record EXCEPT !.date = toISOString(record.date)]
  ELSE record

\* JSON.stringify of a collection, as the value setItem stores.
Stringify(records) ==
  [has |-> TRUE, json |-> TRUE, val |-> [i \in DOMAIN records |-> ToJSON(records[i])]]

\* JSON.parse throws on the stored text; an absent value is never parsed.
SyntaxError(stored) == stored.has /\ ~stored.json

\* `stored ? JSON.parse(stored) : []`: the text of a Date stays a string.
Parse(stored) == IF stored.has THEN stored.val ELSE <<>>

Appointments == Parse(storage[KeyAppointments])
LegacyAppointments == Parse(storage[KeyLegacyAppointments])
Notifications == Parse(storage[STORAGE_KEY])
Users == Parse(storage[KeyUsers])

\* --------------------------------------------------------- sequence helpers
\* Array.prototype.map is written [i \in 1..Len(s) |-> ...] and
\* Array.prototype.filter is SelectSeq: both keep the order of the elements.

\* Array.prototype.findIndex: 0 when no element matches.
RECURSIVE FindIndexFrom(_, _, _)
FindIndexFrom(s, id, i) ==
  IF i > Len(s) THEN 0
  ELSE IF s[i].id = id THEN i ELSE FindIndexFrom(s, id, i + 1)

\* Faulty variant: an id that no record has locates the first record.
FindIndexOrFirst(s, id) ==
  IF FindIndexFrom(s, id, 1) = 0 /\ Len(s) > 0 THEN 1 ELSE FindIndexFrom(s, id, 1)

FindIndex(s, id) == FindIndexFrom(s, id, 1)

\* ------------------------------------------------------ notification service
NoDraft == [userId |-> "", type |-> "", title |-> "", message |-> <<>>, appointmentId |-> -1]

\* createNotification: the record completed with id, createdAt and read.
NewNotification(draft, clock) ==
  [ id |-> clock,
    userId |-> draft.userId,
    title |-> draft.title,
    message |-> draft.message,
    type |-> draft.type,
    read |-> FALSE,
    createdAt |-> clock,
    appointmentId |-> draft.appointmentId ]

\* Faulty variant: the new record goes to the front (unshift in place of push).
createNotificationPrepending(all, draft, clock) == <<NewNotification(draft, clock)>> \o all

createNotification(all, draft, clock) == Append(all, NewNotification(draft, clock))

\* Faulty variant: flips the flag instead of setting it.
markAsReadToggling(all, notificationId) ==
  LET f(n) == IF n.id = notificationId THEN [n EXCEPT !.read = ~n.read] ELSE n
  IN [i \in 1..Len(all) |-> f(all[i])]

\* Faulty variant: keeps only the matching records (filter in place of map).
markAsReadDroppingOthers(all, notificationId) ==
  LET keep(n) == n.id = notificationId
      f(n) == [n EXCEPT !.read = TRUE]
  IN [i \in 1..Len(SelectSeq(all, keep)) |-> f(SelectSeq(all, keep)[i])]

markAsRead(all, notificationId) ==
  LET f(n) == IF n.id = notificationId THEN [n EXCEPT !.read = TRUE] ELSE n
  IN [i \in 1..Len(all) |-> f(all[i])]

\* Faulty variant: ignores the user and marks every record.
markAllAsReadOfEveryone(all, userId) ==
  LET f(n) == [n EXCEPT !.read = TRUE]
  IN [i \in 1..Len(all) |-> f(all[i])]

markAllAsRead(all, userId) ==
  LET f(n) == IF n.userId = userId THEN [n EXCEPT !.read = TRUE] ELSE n
  IN [i \in 1..Len(all) |-> f(all[i])]

\* Faulty variant: the filter keeps the records of that id and drops the rest.
deleteNotificationKeepingOnlyMatch(all, notificationId) ==
  LET keep(n) == n.id = notificationId
  IN SelectSeq(all, keep)

deleteNotification(all, notificationId) ==
  LET keep(n) == n.id # notificationId
  IN SelectSeq(all, keep)

\* Faulty variant: a record goes before the records of the same instant.
RECURSIVE InsertDescBeforeEquals(_, _)
InsertDescBeforeEquals(sorted, n) ==
  IF sorted = <<>> THEN <<n>>
  ELSE IF Head(sorted).createdAt - n.createdAt <= 0
       THEN <<n>> \o sorted
       ELSE <<Head(sorted)>> \o InsertDescBeforeEquals(Tail(sorted), n)

\* Array.prototype.sort with (a, b) => time(b) - time(a): stable, newest first.
RECURSIVE InsertDesc(_, _)
InsertDesc(sorted, n) ==
  IF sorted = <<>> THEN <<n>>
  ELSE IF Head(sorted).createdAt - n.createdAt < 0
       THEN <<n>> \o sorted
       ELSE <<Head(sorted)>> \o InsertDesc(Tail(sorted), n)

RECURSIVE SortDesc(_)
SortDesc(s) ==
  IF s = <<>> THEN <<>>
  ELSE InsertDesc(SortDesc(SubSeq(s, 1, Len(s) - 1)), s[Len(s)])

\* A thrown JSON.parse is caught and the result is the empty list.
getNotifications(stored, userId) ==
  LET mine(n) == n.userId = userId
  IN IF SyntaxError(stored) THEN <<>>
     ELSE SortDesc(SelectSeq(Parse(stored), mine))

getUnreadCount(stored, userId) ==
  LET unread(n) == ~n.read
  IN Len(SelectSeq(getNotifications(stored, userId), unread))

\* Faulty variant: addresses the appointment's doctor instead of the patient.
notifyAppointmentConfirmedToDoctor(patientId, appointmentDetails) ==
  [ userId |-> appointmentDetails.doctorId,
    type |-> "appointment_confirmed",
    title |-> "Consulta Confirmada",
    message |-> << "Sua consulta com ", appointmentDetails.doctorName,
                   " foi confirmada para ", appointmentDetails.date,
                   " às ", appointmentDetails.time, "." >>,
    appointmentId |-> appointmentDetails.id ]

notifyAppointmentConfirmed(patientId, appointmentDetails) ==
  [ userId |-> patientId,
    type |-> "appointment_confirmed",
    title |-> "Consulta Confirmada",
    message |-> << "Sua consulta com ", appointmentDetails.doctorName,
                   " foi confirmada para ", appointmentDetails.date,
                   " às ", appointmentDetails.time, "." >>,
    appointmentId |-> appointmentDetails.id ]

notifyAppointmentCancelled(patientId, appointmentDetails, reason) ==
  [ userId |-> patientId,
    type |-> "appointment_cancelled",
    title |-> "Consulta Cancelada",
    message |-> << "Sua consulta com ", appointmentDetails.doctorName, " foi cancelada." >>
                \o (IF reason # "" THEN <<" Motivo: ", reason>> ELSE <<>>),
    appointmentId |-> appointmentDetails.id ]

\* Faulty variant: addresses the patient who booked instead of the doctor.
notifyNewAppointmentToPatient(doctorId, appointmentDetails) ==
  [ userId |-> appointmentDetails.patientId,
    type |-> "general",
    title |-> "Nova Consulta Agendada",
    message |-> << appointmentDetails.patientName, " agendou uma consulta para ",
                   appointmentDetails.date, " às ", appointmentDetails.time, "." >>,
    appointmentId |-> appointmentDetails.id ]

notifyNewAppointment(doctorId, appointmentDetails) ==
  [ userId |-> doctorId,
    type |-> "general",
    title |-> "Nova Consulta Agendada",
    message |-> << appointmentDetails.patientName, " agendou uma consulta para ",
                   appointmentDetails.date, " às ", appointmentDetails.time, "." >>,
    appointmentId |-> appointmentDetails.id ]

\* ------------------------------------------------------- appointment records
NoRec == [id |-> -1]

\* handleCreateAppointment: the record built after the read.
NewAppointment(user, doctor, date, time, clock) ==
  [ id |-> clock,
    patientId |-> user.id,
    patientName |-> user.name,
    doctorId |-> doctor.id,
    doctorName |-> doctor.name,
    date |-> date,
    time |-> time,
    specialty |-> doctor.specialty,
    status |-> "pending" ]

\* handleSubmit of the form-based screen: id, the form payload, status.
NewLegacyAppointment(form, clock) ==
  [ id |-> clock,
    doctorId |-> form.doctorId,
    date |-> form.date,
    time |-> form.time,
    description |-> form.description,
    status |-> "pending" ]

\* setStatus: the located record takes the new status.
setStatus(all, i, newStatus) == [all EXCEPT ![i].status = newStatus]

\* delete: the located record is removed.
deleteAppointment(all, i) == SubSeq(all, 1, i - 1) \o SubSeq(all, i + 1, Len(all))

\* ----------------------------------------------------------- user records
\* Faulty variant: the filter also drops the records that follow the user's.
deleteUserAndFollowing(allUsers, userId) ==
  LET before(i) == \A j \in 1..i : allUsers[j].id # userId
  IN SubSeq(allUsers, 1, Cardinality({i \in DOMAIN allUsers : before(i)}))

\* handleDeleteUser: `allUsers.filter(u => u.id !== userId)`
deleteUser(allUsers, userId) ==
  LET keep(u) == u.id # userId
  IN SelectSeq(allUsers, keep)

\* ------------------------------------------------------- statistics service
\* A JavaScript number that is a quotient is kept as the exact fraction in
\* lowest terms; the rounding of the floating-point division is not modelled.
RECURSIVE GCD(_, _)
GCD(a, b) == IF b = 0 THEN a ELSE GCD(b, a % b)

Fraction(num, den) == [num |-> num \div GCD(num, den), den |-> den \div GCD(num, den)]

\* Faulty variant: the quotient is not scaled to a percentage.
PercentageUnscaled(count, total) ==
  IF total > 0 THEN Fraction(count, total) ELSE Fraction(0, 1)

\* `total > 0 ? (count / total) * 100 : 0`
Percentage(count, total) ==
  IF total > 0 THEN Fraction(count * 100, total) ELSE Fraction(0, 1)

\* appointments.filter(a => a.status === status).length
CountStatus(appointments, status) ==
  LET is(a) == a.status = status
  IN Len(SelectSeq(appointments, is))

statusPercentages(appointments) ==
  [ confirmed |-> Percentage(CountStatus(appointments, "confirmed"), Len(appointments)),
    pending |-> Percentage(CountStatus(appointments, "pending"), Len(appointments)),
    cancelled |-> Percentage(CountStatus(appointments, "cancelled"), Len(appointments)) ]

\* `${x}` of a destructured element that the array does not have.
Undefined == <<"u", "n", "d", "e", "f", "i", "n", "e", "d">>

\* const [day, month, year] = parts: the k-th element, undefined past the end.
Destructured(parts, k) == IF k <= Len(parts) THEN parts[k] ELSE Undefined

\* `${month}/${year}` of appointment.date.split('/')
monthKey(date) ==
  LET parts == Split(date, "/")
  IN Destructured(parts, 2) \o <<"/">> \o Destructured(parts, 3)

\* The forEach that counts per key: key(a) -> number of records with that key.
CountBy(appointments, keys) ==
  [ k \in {keys[i] : i \in DOMAIN appointments} |->
      Cardinality({i \in DOMAIN appointments : keys[i] = k}) ]

\* split is applied to a string in every record (each writer of the key stores
\* the typed text), so the catch of the loop body is never entered.
appointmentsByMonth(appointments) ==
  CountBy(appointments, [i \in DOMAIN appointments |-> monthKey(appointments[i].date)])

specialties(appointments) ==
  CountBy(appointments, [i \in DOMAIN appointments |-> appointments[i].specialty])

\* Faulty variant: patients and doctors are counted once per appointment.
getGeneralStatisticsPerAppointment(appointments) ==
  [ totalAppointments |-> Len(appointments),
    confirmedAppointments |-> CountStatus(appointments, "confirmed"),
    pendingAppointments |-> CountStatus(appointments, "pending"),
    cancelledAppointments |-> CountStatus(appointments, "cancelled"),
    totalPatients |-> Len(appointments),
    totalDoctors |-> Len(appointments),
    specialties |-> specialties(appointments),
    appointmentsByMonth |-> appointmentsByMonth(appointments),
    statusPercentages |-> statusPercentages(appointments) ]

getGeneralStatistics(appointments) ==
  [ totalAppointments |-> Len(appointments),
    confirmedAppointments |-> CountStatus(appointments, "confirmed"),
    pendingAppointments |-> CountStatus(appointments, "pending"),
    cancelledAppointments |-> CountStatus(appointments, "cancelled"),
    totalPatients |-> Cardinality({appointments[i].patientId : i \in DOMAIN appointments}),
    totalDoctors |-> Cardinality({appointments[i].doctorId : i \in DOMAIN appointments}),
    specialties |-> specialties(appointments),
    appointmentsByMonth |-> appointmentsByMonth(appointments),
    statusPercentages |-> statusPercentages(appointments) ]

\* Faulty variant: the collection is not filtered by the doctor.
getDoctorStatisticsOfEveryone(allAppointments, doctorId) ==
  [ totalAppointments |-> Len(allAppointments),
    confirmedAppointments |-> CountStatus(allAppointments, "confirmed"),
    pendingAppointments |-> CountStatus(allAppointments, "pending"),
    cancelledAppointments |-> CountStatus(allAppointments, "cancelled"),
    totalPatients |->
      Cardinality({allAppointments[i].patientId : i \in DOMAIN allAppointments}),
    statusPercentages |-> statusPercentages(allAppointments) ]

getDoctorStatistics(allAppointments, doctorId) ==
  LET ofDoctor(a) == a.doctorId = doctorId
      doctorAppointments == SelectSeq(allAppointments, ofDoctor)
  IN [ totalAppointments |-> Len(doctorAppointments),
       confirmedAppointments |-> CountStatus(doctorAppointments, "confirmed"),
       pendingAppointments |-> CountStatus(doctorAppointments, "pending"),
       cancelledAppointments |-> CountStatus(doctorAppointments, "cancelled"),
       totalPatients |->
         Cardinality({doctorAppointments[i].patientId : i \in DOMAIN doctorAppointments}),
       statusPercentages |-> statusPercentages(doctorAppointments) ]

getPatientStatistics(allAppointments, patientId) ==
  LET ofPatient(a) == a.patientId = patientId
      patientAppointments == SelectSeq(allAppointments, ofPatient)
  IN [ totalAppointments |-> Len(patientAppointments),
       confirmedAppointments |-> CountStatus(patientAppointments, "confirmed"),
       pendingAppointments |-> CountStatus(patientAppointments, "pending"),
       cancelledAppointments |-> CountStatus(patientAppointments, "cancelled"),
       totalDoctors |->
         Cardinality({patientAppointments[i].doctorId : i \in DOMAIN patientAppointments}),
       specialties |-> specialties(patientAppointments),
       statusPercentages |-> statusPercentages(patientAppointments) ]

\* ------------------------------------------------------------ call paths
StatisticsKinds == {"getGeneralStatistics", "getDoctorStatistics", "getPatientStatistics"}

\* The calls that only load: they have a result and no setItem.
LoadKinds == StatisticsKinds \cup {"getNotifications", "getUnreadCount", "loadAppointments"}

IdleOp ==
  [ kind |-> "none", key |-> "", phase |-> "", id |-> -1, userId |-> "",
    newStatus |-> "", reason |-> "", user |-> [id |-> "", name |-> ""],
    doctor |-> NoDoctor, date |-> <<>>, time |-> <<>>, description |-> "",
    rec |-> NoRec, draft |-> NoDraft, err |-> "", thrown |-> FALSE,
    result |-> NoRec ]

\* A handler is invoked on an idle call path; a caller that awaits every
\* call before the next one has a single call path.
CanCall(p) ==
  /\ pc[p] = "idle"
  /\ serial => p = 1
  /\ calls < (IF serial THEN MaxCalls ELSE MaxRaceCalls)

Start(p, o) ==
  /\ pc' = [pc EXCEPT ![p] = "get"]
  /\ op' = [op EXCEPT ![p] = o]
  /\ calls' = calls + 1
  /\ UNCHANGED <<storage, now, snap, buf, apptCount, serial>>

Finish(p, o) ==
  /\ pc' = [pc EXCEPT ![p] = "done"]
  /\ op' = [op EXCEPT ![p] = o]
  /\ calls' = calls + 1
  /\ UNCHANGED <<storage, now, snap, buf, apptCount, serial>>

\* `!date || !selectedTime || !selectedDoctor`
MissingField(date, selectedTime, selectedDoctor) ==
  date = <<>> \/ selectedTime = <<>> \/ selectedDoctor = NoDoctor

\* handleCreateAppointment, up to its first await, for a user, a typed date,
\* a selected time and a selected doctor out of the given sets.
CreateAppointmentFrom(p, users, dates, times, doctors) ==
  /\ CanCall(p)
  /\ \E user \in users, date \in dates, time \in times, doctor \in doctors :
       LET o == [IdleOp EXCEPT !.kind = "createAppointment",
                               !.key = KeyAppointments, !.phase = "appointment",
                               !.user = user, !.doctor = doctor,
                               !.date = date, !.time = time]
       IN IF MissingField(date, time, doctor)
          THEN Finish(p, [o EXCEPT !.err = "validation"])
          ELSE Start(p, o)

CallCreateAppointment(p) ==
  CreateAppointmentFrom(p, Patients, DateInputs, TimeInputs, DoctorChoices)

\* handleSubmit of AppointmentForm followed by handleSubmit of the form-based
\* create screen, up to its first await, for form fields out of the given sets.
SubmitFrom(p, doctors, dates, times, descriptions) ==
  /\ CanCall(p)
  /\ \E doctor \in doctors, date \in dates, time \in times,
        description \in descriptions :
       LET o == [IdleOp EXCEPT !.kind = "submit", !.key = KeyLegacyAppointments,
                               !.phase = "appointment",
                               !.doctor = doctor, !.date = date,
                               !.time = time, !.description = description]
       IN IF doctor.id = "" \/ time = <<>> \/ description = ""
          THEN Finish(p, [o EXCEPT !.err = "validation"])
          ELSE IF ~validateDate(date, now)
          THEN Finish(p, [o EXCEPT !.err = "validation"])
          ELSE Start(p, o)

CallSubmit(p) ==
  SubmitFrom(p, {availableDoctors[i] : i \in 1..MaxDoctor}, DateInputs \ {<<>>},
             TimeInputs \ {<<>>}, Descriptions)

\* setStatus(id, newStatus, reason?), up to its first await.
CallSetStatus(p) ==
  /\ CanCall(p)
  /\ \E id \in Ids, newStatus \in NewStatuses, reason \in Reasons :
       /\ newStatus = "confirmed" => reason = ""
       /\ Start(p, [IdleOp EXCEPT !.kind = "setStatus", !.key = KeyAppointments,
                                  !.phase = "appointment", !.id = id,
                                  !.newStatus = newStatus, !.reason = reason])

\* delete(id) of the appointment repository, up to its first await.
CallDeleteAppointment(p) ==
  /\ CanCall(p)
  /\ \E id \in Ids :
       Start(p, [IdleOp EXCEPT !.kind = "deleteAppointment", !.key = KeyAppointments,
                               !.phase = "appointment", !.id = id])

CallMarkAsRead(p) ==
  /\ CanCall(p)
  /\ \E id \in Ids :
       Start(p, [IdleOp EXCEPT !.kind = "markAsRead", !.key = STORAGE_KEY,
                               !.phase = "notification", !.id = id])

CallMarkAllAsRead(p) ==
  /\ CanCall(p)
  /\ \E u \in UserIds :
       Start(p, [IdleOp EXCEPT !.kind = "markAllAsRead", !.key = STORAGE_KEY,
                               !.phase = "notification", !.userId = u])

CallDeleteNotification(p) ==
  /\ CanCall(p)
  /\ \E id \in Ids :
       Start(p, [IdleOp EXCEPT !.kind = "deleteNotification", !.key = STORAGE_KEY,
                               !.phase = "notification", !.id = id])

\* handleDeleteUser(userId), up to its first await, for a user id out of the
\* given set.
DeleteUserFrom(p, userIds) ==
  /\ CanCall(p)
  /\ \E userId \in userIds :
       Start(p, [IdleOp EXCEPT !.kind = "deleteUser", !.key = KeyUsers,
                               !.phase = "user", !.userId = userId])

\* AsyncStorage.getItem resolves with the value stored now.
GetItem(p) ==
  /\ pc[p] = "get"
  /\ snap' = [snap EXCEPT ![p] = storage[op[p].key]]
  /\ pc' = [pc EXCEPT ![p] = "resume"]
  /\ UNCHANGED <<storage, now, op, buf, apptCount, calls, serial>>

\* The collection the handler builds from what it read, before its setItem.
Built(p) ==
  LET o == op[p]
      all == Parse(snap[p])
  IN CASE o.kind = "createAppointment" /\ o.phase = "appointment" ->
            Append(all, NewAppointment(o.user, o.doctor, o.date, o.time, now))
       [] o.kind = "submit" ->
            Append(all, NewLegacyAppointment(
                          [doctorId |-> o.doctor.id, date |-> DateOfInput(o.date),
                           time |-> o.time, description |-> o.description], now))
       [] o.kind = "setStatus" /\ o.phase = "appointment" ->
            setStatus(all, FindIndex(all, o.id), o.newStatus)
       [] o.kind = "deleteAppointment" ->
            deleteAppointment(all, FindIndex(all, o.id))
       [] o.phase = "notification" /\ o.kind \in {"createAppointment", "setStatus"} ->
            createNotification(all, o.draft, now)
       [] o.kind = "markAsRead" -> markAsRead(all, o.id)
       [] o.kind = "markAllAsRead" -> markAllAsRead(all, o.userId)
       [] o.kind = "deleteNotification" -> deleteNotification(all, o.id)
       [] o.kind = "deleteUser" -> deleteUser(all, o.userId)

\* The record the handler keeps for what follows its write.
Kept(p) ==
  LET o == op[p]
      all == Parse(snap[p])
  IN CASE o.kind \in {"createAppointment", "submit"} /\ o.phase = "appointment" ->
            Built(p)[Len(Built(p))]
       [] o.kind \in {"setStatus", "deleteAppointment"} /\ o.phase = "appointment" ->
            all[FindIndex(all, o.id)]
       [] OTHER -> o.rec

\* setStatus and delete on an id that no record has: NotFoundError, no write.
NotFound(p) ==
  /\ op[p].kind \in {"setStatus", "deleteAppointment"}
  /\ op[p].phase = "appointment"
  /\ FindIndex(Parse(snap[p]), op[p].id) = 0

\* handleDeleteUser on a key that holds nothing: `if (storedUsers)` is not
\* entered and nothing is written.
NothingStored(p) == op[p].kind = "deleteUser" /\ ~snap[p].has

\* createNotification called by a handler after its appointment write.
Nested(o) == o.phase = "notification" /\ o.kind \in {"createAppointment", "setStatus"}

\* Faulty variant of the catch block: handleCreateAppointment notifies the
\* doctor of the appointment it failed to save.
CatchAndNotify(p, error) ==
  IF op[p].kind = "createAppointment" /\ op[p].phase = "appointment"
  THEN /\ pc' = [pc EXCEPT ![p] = "get"]
       /\ op' = [op EXCEPT ![p].err = error, ![p].phase = "notification",
                           ![p].key = STORAGE_KEY,
                           ![p].draft =
                             notifyNewAppointment(
                               op[p].doctor.id,
                               NewAppointment(op[p].user, op[p].doctor, op[p].date,
                                              op[p].time, now))]
  ELSE /\ pc' = [pc EXCEPT ![p] = "done"]
       /\ op' = [op EXCEPT ![p].err = IF Nested(op[p]) THEN @ ELSE error]

\* Faulty variant of the catch block: the error goes on to the caller.
CatchRethrowing(p, error) ==
  /\ pc' = [pc EXCEPT ![p] = "done"]
  /\ op' = [op EXCEPT ![p].err = error, ![p].thrown = TRUE]

\* The catch block that an error thrown in the body reaches. The notification
\* service logs the error and returns, so a handler that called it goes on
\* as after a success; the screens' handlers keep the error to show it; the
\* statistics service logs the error and throws it again.
Catch(p, error) ==
  /\ pc' = [pc EXCEPT ![p] = "done"]
  /\ op' = [op EXCEPT ![p].err = IF Nested(op[p]) THEN @ ELSE error,
                      ![p].thrown = op[p].kind \in StatisticsKinds]

\* The handler runs from the resolved getItem to its setItem.
Resume(p) ==
  /\ pc[p] = "resume"
  /\ op[p].kind \notin LoadKinds
  /\ IF SyntaxError(snap[p])
     THEN Catch(p, "SyntaxError") /\ UNCHANGED buf
     ELSE IF NotFound(p)
     THEN /\ pc' = [pc EXCEPT ![p] = "done"]
          /\ op' = [op EXCEPT ![p].err = "NotFoundError"]
          /\ UNCHANGED buf
     ELSE IF NothingStored(p)
     THEN /\ pc' = [pc EXCEPT ![p] = "done"]
          /\ UNCHANGED <<op, buf>>
     ELSE /\ pc' = [pc EXCEPT ![p] = "set"]
          /\ op' = [op EXCEPT ![p].rec = Kept(p)]
          /\ buf' = [buf EXCEPT ![p] = Built(p)]
  /\ UNCHANGED <<storage, now, snap, apptCount, calls, serial>>

\* The notification a handler raises after its appointment write.
DraftFor(o) ==
  CASE o.kind = "createAppointment" -> notifyNewAppointment(o.doctor.id, o.rec)
    [] o.kind = "setStatus" /\ o.newStatus = "confirmed" ->
         notifyAppointmentConfirmed(o.rec.patientId, o.rec)
    [] o.kind = "setStatus" /\ o.newStatus = "cancelled" ->
         notifyAppointmentCancelled(o.rec.patientId, o.rec, o.reason)
    [] OTHER -> NoDraft

Notifies(o) == o.kind \in {"createAppointment", "setStatus"} /\ o.phase = "appointment"

CountAfter(o) ==
  CASE o.kind = "createAppointment" /\ o.phase = "appointment" -> apptCount + 1
    [] o.kind = "deleteAppointment" -> apptCount - 1
    [] OTHER -> apptCount

\* AsyncStorage.setItem replaces the whole value; the handler then either
\* calls createNotification (which issues its getItem) or returns.
SetItem(p) ==
  /\ pc[p] = "set"
  /\ storage' = [storage EXCEPT ![op[p].key] = Stringify(buf[p])]
  /\ apptCount' = CountAfter(op[p])
  /\ IF Notifies(op[p])
     THEN /\ pc' = [pc EXCEPT ![p] = "get"]
          /\ op' = [op EXCEPT ![p].phase = "notification", ![p].key = STORAGE_KEY,
                              ![p].draft = DraftFor(op[p])]
     ELSE /\ pc' = [pc EXCEPT ![p] = "done"]
          /\ UNCHANGED op
  /\ UNCHANGED <<now, snap, buf, calls, serial>>

\* The promise settles and the handler's locals are gone.
Return(p) ==
  /\ pc[p] = "done"
  /\ pc' = [pc EXCEPT ![p] = "idle"]
  /\ op' = [op EXCEPT ![p] = IdleOp]
  /\ snap' = [snap EXCEPT ![p] = Absent]
  /\ buf' = [buf EXCEPT ![p] = <<>>]
  /\ UNCHANGED <<storage, now, apptCount, calls, serial>>

\* A millisecond passes.
Tick ==
  /\ now < MaxClock
  /\ now' = now + 1
  /\ UNCHANGED <<storage, pc, op, snap, buf, apptCount, calls, serial>>

InitWith(awaited) ==
  /\ storage = [k \in Keys |-> Absent]
  /\ now = 0
  /\ pc = [p \in Procs |-> "idle"]
  /\ op = [p \in Procs |-> IdleOp]
  /\ snap = [p \in Procs |-> Absent]
  /\ buf = [p \in Procs |-> <<>>]
  /\ apptCount = 0
  /\ calls = 0
  /\ serial = awaited

Next ==
  \/ \E p \in Procs : CallCreateAppointment(p)
  \/ \E p \in Procs : CallSubmit(p)
  \/ \E p \in Procs : CallSetStatus(p)
  \/ \E p \in Procs : CallDeleteAppointment(p)
  \/ \E p \in Procs : CallMarkAsRead(p)
  \/ \E p \in Procs : CallMarkAllAsRead(p)
  \/ \E p \in Procs : CallDeleteNotification(p)
  \/ \E p \in Procs : GetItem(p)
  \/ \E p \in Procs : Resume(p)
  \/ \E p \in Procs : SetItem(p)
  \/ \E p \in Procs : Return(p)
  \/ Tick

\* Calls may overlap at their awaits.
Init == InitWith(FALSE)
Spec == Init /\ [][Next]_vars

\* Every call is awaited before the next one starts.
SerialInit == InitWith(TRUE)
SerialSpec == SerialInit /\ [][Next]_vars

\* ----------------------------------------------- the statistics calls alone
\* The statistics service run on a stored appointment collection: up to
\* MaxPerStatus records of each status, written by handleCreateAppointment for
\* two patients and two doctors in turn, with two typed dates in turn.
StoredDates ==
  { <<"1", "0", "/", "1", "2", "/", "2", "0", "2", "6">>,
    <<"1", "5", "/", "0", "1", "/", "2", "0", "2", "7">>,
    <<"1", "0", "1", "2", "2", "0", "2", "6">> }

StoredPatients == << [id |-> "p1", name |-> "Ana"], [id |-> "p2", name |-> "Beto"] >>

StatisticsDoctorIds == {availableDoctors[i].id : i \in 1..3}

StatusAt(i, confirmed, pending) ==
  IF i <= confirmed THEN "confirmed"
  ELSE IF i <= confirmed + pending THEN "pending" ELSE "cancelled"

StoredAppointment(i, status, date) ==
  [ NewAppointment(StoredPatients[(((i - 1) \div 2) % 2) + 1],
                   availableDoctors[((i - 1) % 2) + 1],
                   date, generateTimeSlots[1], i)
    EXCEPT !.status = status ]

StoredCollection(confirmed, pending, cancelled, oddDate, evenDate) ==
  [ i \in 1..(confirmed + pending + cancelled) |->
      StoredAppointment(i, StatusAt(i, confirmed, pending),
                        IF i % 2 = 1 THEN oddDate ELSE evenDate) ]

StatisticsInit ==
  /\ \E confirmed, pending, cancelled \in 0..MaxPerStatus, oddDate, evenDate \in StoredDates :
       LET all == StoredCollection(confirmed, pending, cancelled, oddDate, evenDate)
       IN /\ storage = [k \in Keys |->
                          IF k = KeyAppointments /\ all # <<>> THEN Stringify(all) ELSE Absent]
          /\ apptCount = Len(all)
  /\ now = 0
  /\ pc = [p \in Procs |-> "idle"]
  /\ op = [p \in Procs |-> IdleOp]
  /\ snap = [p \in Procs |-> Absent]
  /\ buf = [p \in Procs |-> <<>>]
  /\ calls = 0
  /\ serial = TRUE

CallGetGeneralStatistics(p) ==
  /\ CanCall(p)
  /\ Start(p, [IdleOp EXCEPT !.kind = "getGeneralStatistics", !.key = KeyAppointments,
                             !.phase = "appointment"])

CallGetDoctorStatistics(p) ==
  /\ CanCall(p)
  /\ \E doctorId \in StatisticsDoctorIds :
       Start(p, [IdleOp EXCEPT !.kind = "getDoctorStatistics", !.key = KeyAppointments,
                               !.phase = "appointment", !.userId = doctorId])

CallGetPatientStatistics(p) ==
  /\ CanCall(p)
  /\ \E i \in DOMAIN StoredPatients :
       Start(p, [IdleOp EXCEPT !.kind = "getPatientStatistics", !.key = KeyAppointments,
                               !.phase = "appointment", !.userId = StoredPatients[i].id])

\* Faulty variant: a call that finds no registered users stores an empty
\* list under their key.
ResumeStatisticsStoringUsers(p) ==
  /\ pc[p] = "resume"
  /\ op[p].kind \in StatisticsKinds
  /\ IF SyntaxError(snap[p])
     THEN Catch(p, "SyntaxError") /\ UNCHANGED buf
     ELSE IF op[p].kind = "getGeneralStatistics" /\ op[p].phase = "appointment"
     THEN /\ pc' = [pc EXCEPT ![p] = "get"]
          /\ op' = [op EXCEPT ![p].phase = "users", ![p].key = KeyRegisteredUsers]
          /\ buf' = [buf EXCEPT ![p] = Parse(snap[p])]
     ELSE /\ pc' = [pc EXCEPT ![p] = "done"]
          /\ op' = [op EXCEPT ![p].result =
                      CASE op[p].kind = "getGeneralStatistics" -> getGeneralStatistics(buf[p])
                        [] op[p].kind = "getDoctorStatistics" ->
                             getDoctorStatistics(Parse(snap[p]), op[p].userId)
                        [] op[p].kind = "getPatientStatistics" ->
                             getPatientStatistics(Parse(snap[p]), op[p].userId)]
          /\ UNCHANGED buf
  /\ storage' = IF op[p].phase = "users" /\ ~snap[p].has
                THEN [storage EXCEPT ![KeyRegisteredUsers] = Stringify(<<>>)]
                ELSE storage
  /\ UNCHANGED <<now, snap, apptCount, calls, serial>>

\* A statistics call runs from a resolved getItem to its next await or to its
\* return value; getGeneralStatistics reads the registered users in between.
ResumeStatistics(p) ==
  /\ pc[p] = "resume"
  /\ op[p].kind \in StatisticsKinds
  /\ IF SyntaxError(snap[p])
     THEN Catch(p, "SyntaxError") /\ UNCHANGED buf
     ELSE IF op[p].kind = "getGeneralStatistics" /\ op[p].phase = "appointment"
     THEN /\ pc' = [pc EXCEPT ![p] = "get"]
          /\ op' = [op EXCEPT ![p].phase = "users", ![p].key = KeyRegisteredUsers]
          /\ buf' = [buf EXCEPT ![p] = Parse(snap[p])]
     ELSE /\ pc' = [pc EXCEPT ![p] = "done"]
          /\ op' = [op EXCEPT ![p].result =
                      CASE op[p].kind = "getGeneralStatistics" -> getGeneralStatistics(buf[p])
                        [] op[p].kind = "getDoctorStatistics" ->
                             getDoctorStatistics(Parse(snap[p]), op[p].userId)
                        [] op[p].kind = "getPatientStatistics" ->
                             getPatientStatistics(Parse(snap[p]), op[p].userId)]
          /\ UNCHANGED buf
  /\ UNCHANGED <<storage, now, snap, apptCount, calls, serial>>

StatisticsNext ==
  \/ \E p \in Procs : CallGetGeneralStatistics(p)
  \/ \E p \in Procs : CallGetDoctorStatistics(p)
  \/ \E p \in Procs : CallGetPatientStatistics(p)
  \/ \E p \in Procs : GetItem(p)
  \/ \E p \in Procs : ResumeStatistics(p)
  \/ \E p \in Procs : Return(p)

StatisticsSpec == StatisticsInit /\ [][StatisticsNext]_vars

\* ------------------------------------------------ the store failing a call
\* AsyncStorage.getItem rejects: the handler's catch block is reached.
GetItemFails(p) ==
  /\ pc[p] = "get"
  /\ Catch(p, "StoreError")
  /\ UNCHANGED <<storage, now, snap, buf, apptCount, calls, serial>>

\* AsyncStorage.setItem rejects, the value under the key stays as it was, and
\* the handler's catch block is reached.
SetItemFails(p) ==
  /\ pc[p] = "set"
  /\ Catch(p, "StoreError")
  /\ UNCHANGED <<storage, now, snap, buf, apptCount, calls, serial>>

FaultyCreateAppointment(p) ==
  /\ calls < MaxFaultCalls
  /\ CallCreateAppointment(p)

FaultyMarkAsRead(p) ==
  /\ calls < MaxFaultCalls
  /\ CallMarkAsRead(p)

FaultyMarkAllAsRead(p) ==
  /\ calls < MaxFaultCalls
  /\ CallMarkAllAsRead(p)

FaultyDeleteNotification(p) ==
  /\ calls < MaxFaultCalls
  /\ CallDeleteNotification(p)

\* handleCreateAppointment and the notification operations, each call awaited,
\* on a store whose getItem and setItem may reject.
FaultNext ==
  \/ \E p \in Procs : FaultyCreateAppointment(p)
  \/ \E p \in Procs : FaultyMarkAsRead(p)
  \/ \E p \in Procs : FaultyMarkAllAsRead(p)
  \/ \E p \in Procs : FaultyDeleteNotification(p)
  \/ \E p \in Procs : GetItem(p)
  \/ \E p \in Procs : GetItemFails(p)
  \/ \E p \in Procs : Resume(p)
  \/ \E p \in Procs : SetItem(p)
  \/ \E p \in Procs : SetItemFails(p)
  \/ \E p \in Procs : Return(p)
  \/ Tick

FaultSpec == SerialInit /\ [][FaultNext]_vars

\* -------------------------------------------------- the loading calls alone
\* The calls that load a collection, run on what a key can hold: nothing, a
\* text that is not JSON, or a collection written by the handlers.
StoredSample ==
  StoredCollection(1, 1, 1, <<"1", "0", "/", "1", "2", "/", "2", "0", "2", "6">>,
                   <<"1", "5", "/", "0", "1", "/", "2", "0", "2", "7">>)

\* Two notifications about the first stored appointment: the doctor's, unread,
\* and the patient's, read.
StoredNotifications ==
  markAsRead(
    createNotification(
      createNotification(<<>>, notifyNewAppointment(StoredSample[1].doctorId,
                                                    StoredSample[1]), 1),
      notifyAppointmentConfirmed(StoredSample[1].patientId, StoredSample[1]), 2),
    2)

Payloads(records) == {Absent, Unparseable, Stringify(records)}

LoadInit ==
  /\ \E a \in Payloads(StoredSample), n \in Payloads(StoredNotifications),
        u \in {Absent, Unparseable} :
       /\ storage = [k \in Keys |->
                       CASE k = KeyAppointments -> a
                         [] k = STORAGE_KEY -> n
                         [] k = KeyRegisteredUsers -> u
                         [] OTHER -> Absent]
       /\ apptCount = Len(Parse(a))
  /\ now = 0
  /\ pc = [p \in Procs |-> "idle"]
  /\ op = [p \in Procs |-> IdleOp]
  /\ snap = [p \in Procs |-> Absent]
  /\ buf = [p \in Procs |-> <<>>]
  /\ calls = 0
  /\ serial = TRUE

CallGetNotifications(p) ==
  /\ CanCall(p)
  /\ \E userId \in UserIds :
       Start(p, [IdleOp EXCEPT !.kind = "getNotifications", !.key = STORAGE_KEY,
                               !.phase = "notification", !.userId = userId])

CallGetUnreadCount(p) ==
  /\ CanCall(p)
  /\ \E userId \in UserIds :
       Start(p, [IdleOp EXCEPT !.kind = "getUnreadCount", !.key = STORAGE_KEY,
                               !.phase = "notification", !.userId = userId])

\* getNotifications and getUnreadCount run from the resolved getItem to their
\* return value.
ResumeNotifications(p) ==
  /\ pc[p] = "resume"
  /\ op[p].kind \in {"getNotifications", "getUnreadCount"}
  /\ pc' = [pc EXCEPT ![p] = "done"]
  /\ op' = [op EXCEPT ![p].result =
              IF op[p].kind = "getNotifications"
              THEN getNotifications(snap[p], op[p].userId)
              ELSE getUnreadCount(snap[p], op[p].userId)]
  /\ UNCHANGED <<storage, now, snap, buf, apptCount, calls, serial>>

LoadNext ==
  \/ \E p \in Procs : CallGetNotifications(p)
  \/ \E p \in Procs : CallGetUnreadCount(p)
  \/ \E p \in Procs : CallGetGeneralStatistics(p)
  \/ \E p \in Procs : CallGetDoctorStatistics(p)
  \/ \E p \in Procs : CallGetPatientStatistics(p)
  \/ \E p \in Procs : GetItem(p)
  \/ \E p \in Procs : ResumeNotifications(p)
  \/ \E p \in Procs : ResumeStatistics(p)
  \/ \E p \in Procs : Return(p)

LoadSpec == LoadInit /\ [][LoadNext]_vars

\* ------------------------------------------------------- the deletes alone
\* The two deletes run on stored collections that refer to each other: the
\* stored appointments, the notifications about the first of them, and the
\* users they name, or no user list at all.
StoredUsers ==
  << [id |-> StoredSample[1].patientId, name |-> StoredSample[1].patientName,
      role |-> "patient"],
     [id |-> StoredSample[1].doctorId, name |-> StoredSample[1].doctorName,
      role |-> "doctor"],
     [id |-> "a1", name |-> "Admin", role |-> "admin"] >>

DeletableUserIds == {StoredUsers[i].id : i \in DOMAIN StoredUsers} \cup {"u9"}

DeleteInit ==
  /\ \E u \in {Absent, Stringify(StoredUsers)} :
       storage = [k \in Keys |->
                    CASE k = KeyAppointments -> Stringify(StoredSample)
                      [] k = STORAGE_KEY -> Stringify(StoredNotifications)
                      [] k = KeyUsers -> u
                      [] OTHER -> Absent]
  /\ apptCount = Len(StoredSample)
  /\ now = 0
  /\ pc = [p \in Procs |-> "idle"]
  /\ op = [p \in Procs |-> IdleOp]
  /\ snap = [p \in Procs |-> Absent]
  /\ buf = [p \in Procs |-> <<>>]
  /\ calls = 0
  /\ serial = TRUE

CallDeleteUser(p) == DeleteUserFrom(p, DeletableUserIds)

DeleteNext ==
  \/ \E p \in Procs : CallDeleteAppointment(p)
  \/ \E p \in Procs : CallDeleteUser(p)
  \/ \E p \in Procs : GetItem(p)
  \/ \E p \in Procs : Resume(p)
  \/ \E p \in Procs : SetItem(p)
  \/ \E p \in Procs : Return(p)

DeleteSpec == DeleteInit /\ [][DeleteNext]_vars

\* ------------------------------------------- the creates and their readers
\* loadAppointments of HomeScreen, up to its first await.
CallLoadAppointments(p) ==
  /\ CanCall(p)
  /\ Start(p, [IdleOp EXCEPT !.kind = "loadAppointments", !.key = KeyLegacyAppointments,
                             !.phase = "appointment"])

\* loadAppointments from the resolved getItem: the list the screen shows is
\* the parsed collection, and stays the empty list of useState([]) when the
\* key holds nothing or the catch block is reached.
ResumeLoadAppointments(p) ==
  /\ pc[p] = "resume"
  /\ op[p].kind = "loadAppointments"
  /\ pc' = [pc EXCEPT ![p] = "done"]
  /\ op' = [op EXCEPT ![p].result = IF SyntaxError(snap[p]) THEN <<>> ELSE Parse(snap[p]),
                      ![p].err = IF SyntaxError(snap[p]) THEN "SyntaxError" ELSE @]
  /\ UNCHANGED <<storage, now, snap, buf, apptCount, calls, serial>>

\* The two create screens, the home screen and the general statistics, each
\* call awaited.
ReaderNext ==
  \/ \E p \in Procs : CallCreateAppointment(p)
  \/ \E p \in Procs : CallSubmit(p)
  \/ \E p \in Procs : CallLoadAppointments(p)
  \/ \E p \in Procs : CallGetGeneralStatistics(p)
  \/ \E p \in Procs : GetItem(p)
  \/ \E p \in Procs : Resume(p)
  \/ \E p \in Procs : ResumeLoadAppointments(p)
  \/ \E p \in Procs : ResumeStatistics(p)
  \/ \E p \in Procs : SetItem(p)
  \/ \E p \in Procs : Return(p)
  \/ Tick

ReaderSpec == SerialInit /\ [][ReaderNext]_vars

\* ------------------------------------------------- the create screens alone
\* The two create screens with the whole range of what can be entered: a user
\* who is signed in or not, a date typed freely on the numeric keyboard, a
\* date typed into the masked field of the form, the first and the last slot
\* of the slot list, a description or none.
ScreenUsers == {[id |-> "p1", name |-> "Ana"], NoUser}

ScreenDoctors == {availableDoctors[1], NoDoctor}

TypedDates ==
  { <<>>,
    <<"1", "0", "/", "1", "2", "/", "2", "0", "2", "6">>,
    <<"1", "0", "1", "2", "2", "0", "2", "6">> }

FormDates ==
  { <<"0", "3", "/", "1", "1", "/", "2", "0", "2", "6">>,
    <<"0", "2", "/", "1", "1", "/", "2", "0", "2", "6">>,
    <<"0", "3", "/", "0", "2", "/", "2", "0", "2", "7">>,
    <<"0", "4", "/", "0", "2", "/", "2", "0", "2", "7">>,
    <<"0", "3", "/", "1", "1">> }

SelectableSlots == {<<>>, generateTimeSlots[1], generateTimeSlots[Len(generateTimeSlots)]}

FormDescriptions == {"", "retorno"}

ScreenCreateAppointment(p) ==
  /\ calls < MaxScreenCalls
  /\ CreateAppointmentFrom(p, ScreenUsers, TypedDates, SelectableSlots, ScreenDoctors)

ScreenSubmit(p) ==
  /\ calls < MaxScreenCalls
  /\ SubmitFrom(p, ScreenDoctors, FormDates, SelectableSlots, FormDescriptions)

ScreenNext ==
  \/ \E p \in Procs : ScreenCreateAppointment(p)
  \/ \E p \in Procs : ScreenSubmit(p)
  \/ \E p \in Procs : GetItem(p)
  \/ \E p \in Procs : Resume(p)
  \/ \E p \in Procs : SetItem(p)
  \/ \E p \in Procs : Return(p)
  \/ Tick

ScreenSpec == SerialInit /\ [][ScreenNext]_vars

\* ================================================================== claims

\* The step in which call path p's setItem of the given handler and phase
\* takes effect.
Writes(p, kind, phase) ==
  /\ pc[p] = "set"
  /\ op[p].kind = kind
  /\ op[p].phase = phase
  /\ pc'[p] # "set"

Completed(p, kind) == pc[p] = "done" /\ op[p].kind = kind /\ op[p].err = ""

CollectionOf(kind) ==
  IF kind = "submit" THEN LegacyAppointments ELSE Appointments

\* C1: when the only two calls made are two creates of the same screen and
\* both have completed, the appointment collection holds exactly the two new
\* records, however their reads and writes were interleaved.
C1_BothCreatesRetained ==
  \A kind \in {"createAppointment", "submit"} :
    ( /\ calls = 2
      /\ Completed(1, kind)
      /\ Completed(2, kind) )
    => /\ Len(CollectionOf(kind)) = 2
       /\ {CollectionOf(kind)[i] : i \in DOMAIN CollectionOf(kind)}
            = {ToJSON(op[1].rec), ToJSON(op[2].rec)}

UniqueIds(all) == \A i, j \in DOMAIN all : i # j => all[i].id # all[j].id

\* C2: with every call awaited, whenever no call is running the appointment
\* collection holds as many records as were created and not deleted, no two
\* of them share an id, and every status is pending, confirmed or cancelled.
C2_SerialCollectionAsExpected ==
  (serial /\ \A p \in Procs : pc[p] = "idle")
  => /\ Len(Appointments) = apptCount
     /\ UniqueIds(Appointments)
     /\ \A i \in DOMAIN Appointments : Appointments[i].status \in Statuses

\* C3: a created appointment is pending, and a setStatus write changes a
\* record's status only from pending to confirmed or from pending to
\* cancelled.
C3_StatusTransitionsLegal ==
  [][ \A p \in Procs :
        /\ Writes(p, "createAppointment", "appointment")
           => Appointments'[Len(Appointments')].status = "pending"
        /\ Writes(p, "setStatus", "appointment")
           => \A i \in DOMAIN Appointments :
                Appointments'[i].status # Appointments[i].status
                => /\ Appointments[i].status = "pending"
                   /\ Appointments'[i].status \in {"confirmed", "cancelled"}
    ]_vars

NotificationTypeFor(newStatus) ==
  IF newStatus = "confirmed" THEN "appointment_confirmed" ELSE "appointment_cancelled"

\* C4: an awaited setStatus(id, confirmed | cancelled) on an existing
\* appointment changes the notification collection in one step only, and that
\* step appends one unread notification addressed to the appointment's
\* patient, of the type of the new status, with appointmentId = id.
C4_SetStatusNotifiesPatient ==
  [][ serial =>
      \A p \in Procs :
        (op[p].kind = "setStatus" /\ pc'[p] # pc[p])
        => IF pc[p] = "set" /\ op[p].phase = "notification"
           THEN /\ Len(Notifications') = Len(Notifications) + 1
                /\ SubSeq(Notifications', 1, Len(Notifications)) = Notifications
                /\ LET n == Notifications'[Len(Notifications')]
                   IN /\ n.userId = op[p].rec.patientId
                      /\ op[p].rec.id = op[p].id
                      /\ n.type = NotificationTypeFor(op[p].newStatus)
                      /\ n.read = FALSE
                      /\ n.appointmentId = op[p].id
           ELSE Notifications' = Notifications
    ]_vars

C4_Witness ==
  \E p \in Procs :
    /\ serial
    /\ Completed(p, "setStatus")
    /\ op[p].newStatus = "confirmed"
    /\ Len(Notifications) = Len(Parse(snap[p])) + 1
    /\ Notifications[Len(Notifications)].type = "appointment_confirmed"

SameNotification(a, b) == [a EXCEPT !.read = FALSE] = [b EXCEPT !.read = FALSE]

\* C5: a notification persisted as read is not persisted as unread by the
\* next write, whatever the interleaving of the calls.
C5_ReadNeverReverts ==
  [][ \A i \in DOMAIN Notifications : \A j \in DOMAIN Notifications' :
        (SameNotification(Notifications[i], Notifications'[j]) /\ Notifications[i].read)
        => Notifications'[j].read
    ]_vars

\* C6: no two records of the notification collection have the same id.
C6_UniqueNotificationIds == UniqueIds(Notifications)

AllRead(all, id) == \A i \in DOMAIN all : all[i].id = id => all[i].read

\* C7: an awaited markAsRead(id) leaves every record with that id read and
\* raises nothing; run on a collection where they are already read (as after
\* a first call) it leaves the collection as it was.
C7_MarkAsReadIdempotent ==
  [][ serial =>
      \A p \in Procs :
        Writes(p, "markAsRead", "notification")
        => /\ AllRead(Notifications', op[p].id)
           /\ AllRead(Notifications, op[p].id) => Notifications' = Notifications
           /\ pc'[p] = "done" /\ op'[p].err = ""
    ]_vars

C7_Witness ==
  \E p \in Procs :
    /\ serial
    /\ Completed(p, "markAsRead")
    /\ \E i \in DOMAIN Parse(snap[p]) :
         Parse(snap[p])[i].id = op[p].id /\ Parse(snap[p])[i].read
    /\ Notifications = Parse(snap[p])

\* C8: an awaited markAsRead(id) keeps the number and order of the records,
\* leaves every record with another id as it was and changes nothing but the
\* read field of a record with that id; when no record with that id is
\* unread the collection is unchanged.
C8_MarkAsReadFrame ==
  [][ serial =>
      \A p \in Procs :
        Writes(p, "markAsRead", "notification")
        => /\ Len(Notifications') = Len(Notifications)
           /\ \A i \in DOMAIN Notifications :
                Notifications'[i] =
                  IF Notifications[i].id = op[p].id
                  THEN [Notifications[i] EXCEPT !.read = TRUE]
                  ELSE Notifications[i]
           /\ (~ \E i \in DOMAIN Notifications :
                   Notifications[i].id = op[p].id /\ ~Notifications[i].read)
              => Notifications' = Notifications
           /\ op'[p].err = ""
    ]_vars

C8_Witness ==
  \E p \in Procs :
    /\ serial
    /\ Completed(p, "markAsRead")
    /\ \E i, j \in DOMAIN Parse(snap[p]) :
         /\ Parse(snap[p])[i].id = op[p].id
         /\ ~Parse(snap[p])[i].read
         /\ Parse(snap[p])[j].id # op[p].id
         /\ ~Parse(snap[p])[j].read
         /\ Notifications[i].read
         /\ ~Notifications[j].read

\* C9: an awaited markAllAsRead(userId) keeps the number and order of the
\* records, sets read on every record of that user, changes no other field
\* and leaves the records of every other user as they were.
C9_MarkAllAsReadFrame ==
  [][ serial =>
      \A p \in Procs :
        Writes(p, "markAllAsRead", "notification")
        => /\ Len(Notifications') = Len(Notifications)
           /\ \A i \in DOMAIN Notifications :
                Notifications'[i] =
                  IF Notifications[i].userId = op[p].userId
                  THEN [Notifications[i] EXCEPT !.read = TRUE]
                  ELSE Notifications[i]
    ]_vars

C9_Witness ==
  \E p \in Procs :
    /\ serial
    /\ Completed(p, "markAllAsRead")
    /\ \E i, j \in DOMAIN Parse(snap[p]) :
         /\ Parse(snap[p])[i].userId = op[p].userId
         /\ ~Parse(snap[p])[i].read
         /\ Parse(snap[p])[j].userId # op[p].userId
         /\ ~Parse(snap[p])[j].read
         /\ Notifications[i].read
         /\ ~Notifications[j].read

UnreadOf(all, userId) == {i \in DOMAIN all : all[i].userId = userId /\ ~all[i].read}

\* C10: getUnreadCount(userId) is the number of persisted unread
\* notifications of that user; with every call awaited it is 0 once
\* markAllAsRead(userId) has written, and one less once markAsRead has
\* written for an id that an unread notification of that user has.
C10_UnreadCount ==
  [][ serial =>
      \A u \in UserIds :
        /\ getUnreadCount(storage'[STORAGE_KEY], u) = Cardinality(UnreadOf(Notifications', u))
        /\ \A p \in Procs :
             /\ (Writes(p, "markAllAsRead", "notification") /\ op[p].userId = u)
                => getUnreadCount(storage'[STORAGE_KEY], u) = 0
             /\ ( /\ Writes(p, "markAsRead", "notification")
                  /\ \E i \in UnreadOf(Notifications, u) : Notifications[i].id = op[p].id )
                => getUnreadCount(storage'[STORAGE_KEY], u) = getUnreadCount(storage[STORAGE_KEY], u) - 1
    ]_vars

\* The place of stored record i among the records of its user when these are
\* listed newest first and, within one createdAt, in stored order.
PlaceNewestFirst(all, i) ==
  1 + Cardinality({j \in DOMAIN all :
                     /\ all[j].userId = all[i].userId
                     /\ \/ all[j].createdAt > all[i].createdAt
                        \/ all[j].createdAt = all[i].createdAt /\ j < i})

\* C11: whenever the persisted notifications change, getNotifications(userId)
\* on the new value returns, for every user, the persisted notifications of
\* that user and nothing else, newest createdAt first, and the records of one
\* createdAt in the order in which they are stored.
C11_GetNotificationsNewestFirstStable ==
  [][ storage'[STORAGE_KEY] # storage[STORAGE_KEY] =>
      \A u \in UserIds :
        LET all == Notifications'
            r == getNotifications(storage'[STORAGE_KEY], u)
        IN /\ Len(r) = Cardinality({i \in DOMAIN all : all[i].userId = u})
           /\ \A i \in DOMAIN all :
                all[i].userId = u => r[PlaceNewestFirst(all, i)] = all[i]
    ]_vars

C11_Witness ==
  \E u \in UserIds :
    LET r == getNotifications(storage[STORAGE_KEY], u)
    IN /\ Len(r) = 3
       /\ r[1].createdAt > r[2].createdAt
       /\ r[2].createdAt = r[3].createdAt
       /\ r[2] # r[3]
       /\ Notifications[1] = r[2]
       /\ Notifications[2] = r[3]
       /\ Notifications[3] = r[1]

\* C12: with every call awaited, the write of createNotification puts exactly
\* one record after the records already stored, unread and with the userId,
\* type and appointmentId it was given, and leaves the stored records as they
\* were and in their order.
C12_CreateNotificationAppendsOne ==
  [][ serial =>
      \A p \in Procs : \A kind \in {"createAppointment", "setStatus"} :
        Writes(p, kind, "notification")
        => /\ Len(Notifications') = Len(Notifications) + 1
           /\ \A i \in DOMAIN Notifications : Notifications'[i] = Notifications[i]
           /\ LET n == Notifications'[Len(Notifications')]
              IN /\ n.read = FALSE
                 /\ n.userId = op[p].draft.userId
                 /\ n.type = op[p].draft.type
                 /\ n.appointmentId = op[p].draft.appointmentId
    ]_vars

C12_Witness ==
  \E p \in Procs :
    /\ serial
    /\ pc[p] = "done"
    /\ op[p].phase = "notification"
    /\ op[p].draft # NoDraft
    /\ Len(Parse(snap[p])) >= 1
    /\ Len(Notifications) = Len(Parse(snap[p])) + 1
    /\ Notifications[1] = Parse(snap[p])[1]
    /\ Notifications[Len(Notifications)].userId = op[p].draft.userId
    /\ Notifications[Len(Notifications)] # Notifications[1]

\* The indices of the records whose id is not the given one.
OtherIds(all, id) == {i \in DOMAIN all : all[i].id # id}

\* C13: with every call awaited, the write of deleteNotification(id) leaves
\* no record with that id, keeps every other record as it was and in the same
\* relative order, and leaves the collection as it was when no record has
\* that id.
C13_DeleteNotificationFrame ==
  [][ serial =>
      \A p \in Procs :
        Writes(p, "deleteNotification", "notification")
        => LET kept == OtherIds(Notifications, op[p].id)
           IN /\ Len(Notifications') = Cardinality(kept)
              /\ \A i \in kept :
                   Notifications'[Cardinality({j \in kept : j <= i})] = Notifications[i]
              /\ kept = DOMAIN Notifications => Notifications' = Notifications
    ]_vars

C13_Witness ==
  \E p \in Procs :
    /\ serial
    /\ Completed(p, "deleteNotification")
    /\ Len(Parse(snap[p])) = 2
    /\ Parse(snap[p])[1].id = op[p].id
    /\ Parse(snap[p])[2].id # op[p].id
    /\ Notifications = <<Parse(snap[p])[2]>>

CreateCalled(p) ==
  /\ pc[p] = "idle"
  /\ pc'[p] # "idle"
  /\ op'[p].kind \in {"createAppointment", "submit"}

Rejected(p) == pc'[p] = "done" /\ op'[p].err = "validation" /\ storage' = storage

\* The required fields of the record a create call would write that are empty.
EmptyRequiredFields(o) ==
  IF o.kind = "createAppointment"
  THEN {f \in {"patientId", "patientName", "doctorId", "doctorName", "date", "time", "specialty"} :
          \/ f = "patientId" /\ o.user.id = ""
          \/ f = "patientName" /\ o.user.name = ""
          \/ f = "doctorId" /\ o.doctor.id = ""
          \/ f = "doctorName" /\ o.doctor.name = ""
          \/ f = "specialty" /\ o.doctor.specialty = ""
          \/ f = "date" /\ o.date = <<>>
          \/ f = "time" /\ o.time = <<>>}
  ELSE {f \in {"doctorId", "date", "time"} :
          \/ f = "doctorId" /\ o.doctor.id = ""
          \/ f = "date" /\ o.date = <<>>
          \/ f = "time" /\ o.time = <<>>}

\* C15: a create call in which a required field (patientId, patientName,
\* doctorId, doctorName, date, time, specialty) is empty is rejected in the
\* step that invokes it, and a rejected call writes to no collection.
C15_EmptyRequiredFieldRejected ==
  [][ \A p \in Procs :
        /\ (CreateCalled(p) /\ EmptyRequiredFields(op'[p]) # {}) => Rejected(p)
        /\ (op[p].err = "validation" /\ pc[p] = "done") => storage' = storage
    ]_vars

\* The minutes after midnight of the half-hour grid 09:00, 09:30, ..., 17:30.
HalfHourGrid == {540 + 30 * k : k \in 0..17}

MinutesOf(time) == ParseInt(SubSeq(time, 1, 2)) * 60 + ParseInt(SubSeq(time, 4, 5))

OnGrid(time) ==
  /\ Len(time) = 5
  /\ time[3] = ":"
  /\ \A i \in {1, 2, 4, 5} : IsDigit(time[i])
  /\ MinutesOf(time) \in HalfHourGrid

\* C16: a create call with 09:00 or 17:30 and the other fields in order is
\* accepted; whenever a create call is accepted, its time is on the half-hour
\* grid from 09:00 to 17:30 and the slots offered for selection are exactly
\* that grid (so 08:30 and 18:00 cannot reach a create); every time that a
\* write stores is on the grid.
C16_TimeOnHalfHourGrid ==
  [][ /\ \A p \in Procs :
           CreateCalled(p)
           => IF Rejected(p)
              THEN ~ ( /\ op'[p].kind = "createAppointment"
                       /\ op'[p].time # <<>>
                       /\ MinutesOf(op'[p].time) \in {540, 1050}
                       /\ op'[p].date # <<>>
                       /\ op'[p].doctor # NoDoctor )
              ELSE /\ OnGrid(op'[p].time)
                   /\ {MinutesOf(generateTimeSlots[i]) : i \in DOMAIN generateTimeSlots}
                        = HalfHourGrid
                   /\ \A i \in DOMAIN generateTimeSlots : OnGrid(generateTimeSlots[i])
      /\ storage' # storage
         => /\ \A i \in DOMAIN Appointments' : OnGrid(Appointments'[i].time)
            /\ \A i \in DOMAIN LegacyAppointments' : OnGrid(LegacyAppointments'[i].time)
    ]_vars

C16_Witness ==
  /\ \E i \in DOMAIN Appointments : MinutesOf(Appointments[i].time) = 540
  /\ \E i \in DOMAIN Appointments : MinutesOf(Appointments[i].time) = 1050
  /\ \E p \in Procs : Completed(p, "createAppointment")

\* The typed date has the form DD/MM/YYYY and names a calendar day from the
\* current day to the same day of the month three months later, both included.
InDateWindow(cs) ==
  /\ MatchesDateRegex(cs)
  /\ DateOfInput(cs).day >= CurrentDate(0).day
  /\ DateOfInput(cs).day <= SetMonth(0, Today.monthIndex + 3).day

NamesToday(cs) == MatchesDateRegex(cs) /\ DateOfInput(cs).day = CurrentDate(0).day

\* C17: a create call is accepted only with a date of the form DD/MM/YYYY
\* inside [today, today + 3 months]; a call with today's date and every other
\* field in order is accepted; any other date rejects the call without a write.
C17_DateInWindow ==
  [][ \A p \in Procs :
        CreateCalled(p)
        => /\ ~InDateWindow(op'[p].date) => Rejected(p)
           /\ ( /\ NamesToday(op'[p].date)
                /\ op'[p].time # <<>>
                /\ op'[p].doctor # NoDoctor
                /\ op'[p].kind = "submit" => op'[p].description # "" )
              => ~Rejected(p)
    ]_vars

\* C18: with every call awaited, a setStatus whose id no stored appointment
\* has ends with NotFoundError in the step that follows its read, and from
\* its call to its return no collection changes: the appointments stay as
\* they were and no notification is created.
C18_SetStatusUnknownIdNotFound ==
  [][ serial =>
      \A p \in Procs :
        /\ ( /\ op[p].kind = "setStatus"
             /\ pc[p] = "resume"
             /\ pc'[p] # "resume"
             /\ ~ \E i \in DOMAIN Appointments : Appointments[i].id = op[p].id )
           => /\ pc'[p] = "done"
              /\ op'[p].err = "NotFoundError"
              /\ storage' = storage
        /\ ( /\ op[p].kind = "setStatus"
             /\ ~ \E i \in DOMAIN Appointments : Appointments[i].id = op[p].id )
           => storage' = storage
    ]_vars

C18_Witness ==
  \E p \in Procs :
    /\ serial
    /\ pc[p] = "done"
    /\ op[p].kind = "setStatus"
    /\ op[p].err = "NotFoundError"
    /\ Len(Appointments) >= 1
    /\ Appointments = Parse(snap[p])
    /\ \A i \in DOMAIN Appointments : Appointments[i].id # op[p].id
    /\ Len(Notifications) = Len(Appointments)

\* The stored appointments that a completed statistics call aggregates.
Aggregated(o) ==
  {i \in DOMAIN Appointments :
     \/ o.kind = "getGeneralStatistics"
     \/ o.kind = "getDoctorStatistics" /\ Appointments[i].doctorId = o.userId
     \/ o.kind = "getPatientStatistics" /\ Appointments[i].patientId = o.userId}

WithStatus(o, status) == {i \in Aggregated(o) : Appointments[i].status = status}

ThreeComponents == {i \in DOMAIN Appointments : Len(Split(Appointments[i].date, "/")) = 3}

MonthAndYear(i) ==
  Split(Appointments[i].date, "/")[2] \o <<"/">> \o Split(Appointments[i].date, "/")[3]

\* C20: getGeneralStatistics returns normally, and its appointmentsByMonth
\* counts every appointment whose date has three components once under its
\* month/year and counts no appointment whose date has not.
C20_MalformedDatesSkipped ==
  \A p \in Procs :
    (pc[p] = "done" /\ op[p].kind = "getGeneralStatistics")
    => /\ op[p].err = ""
       /\ op[p].result.appointmentsByMonth =
            [ k \in {MonthAndYear(i) : i \in ThreeComponents} |->
                Cardinality({i \in ThreeComponents : MonthAndYear(i) = k}) ]

\* The value a loading call returns on an empty collection.
OnEmpty(o) ==
  CASE o.kind = "getNotifications" -> <<>>
    [] o.kind = "getUnreadCount" -> 0
    [] o.kind = "getGeneralStatistics" -> getGeneralStatistics(<<>>)
    [] o.kind = "getDoctorStatistics" -> getDoctorStatistics(<<>>, o.userId)
    [] o.kind = "getPatientStatistics" -> getPatientStatistics(<<>>, o.userId)

\* The keys a loading call has read when it ends.
KeysRead(o) ==
  IF o.kind = "getGeneralStatistics"
  THEN {KeyAppointments, KeyRegisteredUsers}
  ELSE IF o.kind \in StatisticsKinds THEN {KeyAppointments} ELSE {STORAGE_KEY}

NothingToLoad(o) ==
  /\ \E k \in KeysRead(o) : ~storage[k].has \/ SyntaxError(storage[k])
  /\ \A k \in KeysRead(o) : Parse(storage[k]) = <<>>

\* C21: a loading call that finds its key absent or holding a text that is
\* not JSON returns normally, with the value it returns on an empty
\* collection: the empty list, the count 0, the all-zero statistics.
C21_LoadingNeverFails ==
  \A p \in Procs :
    ( /\ pc[p] = "done"
      /\ op[p].kind \in {"getNotifications", "getUnreadCount"} \cup StatisticsKinds
      /\ NothingToLoad(op[p]) )
    => /\ ~op[p].thrown
       /\ op[p].result = OnEmpty(op[p])

\* The store rejects the getItem or the setItem that call path p awaits.
StoreFails(p) == GetItemFails(p) \/ SetItemFails(p)

\* C22: when the store rejects the getItem or the setItem of
\* createNotification, markAsRead, markAllAsRead or deleteNotification, the
\* operation ends there without raising to its caller, and the persisted
\* notification collection is the one from before the call.
C22_StoreFailureScoped ==
  [][ \A p \in Procs :
        (op[p].phase = "notification" /\ StoreFails(p))
        => /\ pc'[p] = "done"
           /\ ~op'[p].thrown
           /\ Notifications' = Notifications
           /\ pc[p] = "set" => Notifications = Parse(snap[p])
    ]_vars

C22_Witness ==
  /\ pc[1] = "done"
  /\ op[1].kind = "markAllAsRead"
  /\ op[1].err = "StoreError"
  /\ buf[1] # Notifications
  /\ \E i \in DOMAIN Notifications : ~Notifications[i].read

\* The statistics a call returns when it is run on the collection `all`.
StatisticsOn(o, all) ==
  CASE o.kind = "getGeneralStatistics" -> getGeneralStatistics(all)
    [] o.kind = "getDoctorStatistics" -> getDoctorStatistics(all, o.userId)
    [] o.kind = "getPatientStatistics" -> getPatientStatistics(all, o.userId)

\* C23: no step of a statistics call changes a stored value, whatever the
\* key, and the value a call returns is determined by the stored appointment
\* collection and the call's argument, so that two calls with no write in
\* between return equal results.
C23_StatisticsReadOnly ==
  [][ \A p \in Procs :
        (op[p].kind \in StatisticsKinds \/ op'[p].kind \in StatisticsKinds)
        => /\ storage' = storage
           /\ (pc[p] = "resume" /\ pc'[p] = "done")
              => /\ ~op'[p].thrown
                 /\ op'[p].result = StatisticsOn(op'[p], Appointments')
    ]_vars

C23_Witness ==
  /\ calls >= 2
  /\ pc[1] = "done"
  /\ op[1].kind = "getGeneralStatistics"
  /\ Len(Appointments) >= 2
  /\ op[1].result.totalAppointments = Len(Appointments)
  /\ \A k \in Keys \ {KeyAppointments} : ~storage[k].has

\* C24: deletes do not cascade. The write of an appointment delete leaves the
\* notification collection as it was, so the notifications that refer to the
\* deleted appointment are still returned to their users; the write of
\* handleDeleteUser leaves the user list without that user's record, the other
\* records in their order, and leaves the appointment and notification
\* collections as they were. No other step of the two calls writes.
C24_DeletesDoNotCascade ==
  [][ storage' # storage =>
        \E p \in Procs :
          \/ /\ Writes(p, "deleteAppointment", "appointment")
             /\ \A k \in Keys \ {KeyAppointments} : storage'[k] = storage[k]
             /\ \A i \in DOMAIN Notifications :
                  Notifications[i].appointmentId = op[p].id
                  => LET returned == getNotifications(storage'[STORAGE_KEY],
                                                      Notifications[i].userId)
                     IN \E j \in DOMAIN returned : returned[j] = Notifications[i]
          \/ /\ Writes(p, "deleteUser", "user")
             /\ \A k \in Keys \ {KeyUsers} : storage'[k] = storage[k]
             /\ LET kept == {i \in DOMAIN Users : Users[i].id # op[p].userId}
                IN /\ Len(Users') = Cardinality(kept)
                   /\ \A i \in kept :
                        Users'[Cardinality({j \in kept : j <= i})] = Users[i]
    ]_vars

C24_Witness ==
  /\ pc[1] = "done"
  /\ op[1].kind = "deleteUser"
  /\ Len(Users) = Len(StoredUsers) - 1
  /\ \A i \in DOMAIN Users : Users[i].id # op[1].userId
  /\ \E i \in DOMAIN Appointments : Appointments[i].patientId = op[1].userId
  /\ \E i \in DOMAIN Notifications :
       /\ Notifications[i].userId = op[1].userId
       /\ \A j \in DOMAIN Appointments :
            Appointments[j].id # Notifications[i].appointmentId

\* C25: a collection saved by setItem and loaded right after it, with no
\* write in between, is the saved sequence: as many records, in the same
\* order, each with the same fields and values.
C25_SaveLoadRoundTrip ==
  [][ \A p \in Procs :
        (pc[p] = "set" /\ storage'[op[p].key] # storage[op[p].key])
        => Parse(storage'[op[p].key]) = buf[p]
    ]_vars

\* C26: however the reads and writes of createNotification, markAsRead,
\* markAllAsRead and deleteNotification calls are interleaved, a notification
\* that is in the persisted collection stays in it at every step except the
\* write of a deleteNotification with its id.
C26_NotificationStaysUntilDeleted ==
  [][ storage'[STORAGE_KEY] # storage[STORAGE_KEY] =>
        \A i \in DOMAIN Notifications :
          \/ \E j \in DOMAIN Notifications' :
               SameNotification(Notifications'[j], Notifications[i])
          \/ \E p \in Procs :
               /\ Writes(p, "deleteNotification", "notification")
               /\ op[p].id = Notifications[i].id
    ]_vars

\* The notifications of a new booking.
NewBookings(all) == {i \in DOMAIN all : all[i].type = "general"}

\* C27: at every step, each notification of a new booking refers to an
\* appointment that the appointment collection already holds, and there are
\* no more of them than appointments; when the store rejects the read or the
\* write of the appointment, handleCreateAppointment ends there and the
\* notification collection stays as it was.
C27_NotificationAfterAppointment ==
  [][ /\ \A i \in NewBookings(Notifications') :
           \E j \in DOMAIN Appointments' :
             Appointments'[j].id = Notifications'[i].appointmentId
      /\ Cardinality(NewBookings(Notifications')) <= Len(Appointments')
      /\ \A p \in Procs :
           ( /\ op[p].kind = "createAppointment"
             /\ op[p].phase = "appointment"
             /\ StoreFails(p) )
           => /\ pc'[p] = "done"
              /\ op'[p].phase = "appointment"
              /\ Notifications' = Notifications
    ]_vars

C27_Witness ==
  /\ pc[1] = "done"
  /\ op[1].kind = "createAppointment"
  /\ op[1].phase = "appointment"
  /\ op[1].err = "StoreError"
  /\ op[1].rec # NoRec
  /\ Len(Appointments) = 1
  /\ Cardinality(NewBookings(Notifications)) = 1

\* The appointments persisted by the two create flows.
Persisted ==
  {Appointments[i] : i \in DOMAIN Appointments}
    \cup {LegacyAppointments[i] : i \in DOMAIN LegacyAppointments}

\* C28: an appointment persisted by a create flow is visible to every
\* reader: a completed loadAppointments of the home screen returns every
\* appointment persisted by handleCreateAppointment or by the form's
\* handleSubmit, and a completed getGeneralStatistics counts every one of them
\* in totalAppointments.
C28_CreatedVisibleToReaders ==
  \A p \in Procs :
    pc[p] = "done"
    => /\ op[p].kind = "loadAppointments"
          => \A a \in Persisted :
               \E i \in DOMAIN op[p].result : op[p].result[i] = a
       /\ op[p].kind = "getGeneralStatistics"
          => op[p].result.totalAppointments
               = Len(Appointments) + Len(LegacyAppointments)

\* The sum of the values of a function with a finite domain.
RECURSIVE SumOver(_, _)
SumOver(f, S) ==
  IF S = {} THEN 0
  ELSE LET x == CHOOSE y \in S : TRUE
       IN f[x] + SumOver(f, S \ {x})

\* The positions at which a value of the field occurs for the first time.
FirstOccurrences(all, field) ==
  {i \in DOMAIN all : \A j \in 1..(i - 1) : all[j][field] # all[i][field]}

\* C29: in the result of getGeneralStatistics on a collection whose statuses
\* are pending, confirmed or cancelled, the three status counts add up to the
\* total, each specialty's count is the number of appointments of that
\* specialty, the specialty counts add up to the total, and totalPatients and
\* totalDoctors are the numbers of distinct patientId and doctorId.
C29_GeneralStatisticsConsistent ==
  \A p \in Procs :
    ( /\ pc[p] = "done"
      /\ op[p].kind = "getGeneralStatistics"
      /\ \A i \in DOMAIN Appointments : Appointments[i].status \in Statuses )
    => LET r == op[p].result
       IN /\ ~op[p].thrown
          /\ r.totalAppointments = Len(Appointments)
          /\ r.confirmedAppointments + r.pendingAppointments + r.cancelledAppointments
               = r.totalAppointments
          /\ DOMAIN r.specialties
               = {Appointments[i].specialty : i \in DOMAIN Appointments}
          /\ \A k \in DOMAIN r.specialties :
               r.specialties[k]
                 = Cardinality({i \in DOMAIN Appointments : Appointments[i].specialty = k})
          /\ SumOver(r.specialties, DOMAIN r.specialties) = r.totalAppointments
          /\ r.totalPatients = Cardinality(FirstOccurrences(Appointments, "patientId"))
          /\ r.totalDoctors = Cardinality(FirstOccurrences(Appointments, "doctorId"))

C29_Witness ==
  /\ pc[1] = "done"
  /\ op[1].kind = "getGeneralStatistics"
  /\ op[1].result.totalAppointments = 3 * MaxPerStatus
  /\ op[1].result.confirmedAppointments = MaxPerStatus
  /\ op[1].result.pendingAppointments = MaxPerStatus
  /\ op[1].result.totalPatients = 2
  /\ op[1].result.totalDoctors = 2
  /\ Cardinality(DOMAIN op[1].result.specialties) = 2

\* The stored appointments whose field has the value, in their order.
SubCollection(field, value) ==
  LET has(a) == a[field] = value
  IN SelectSeq(Appointments, has)

ValuesOf(field) == {Appointments[i][field] : i \in DOMAIN Appointments}

DoctorFields ==
  { "totalAppointments", "confirmedAppointments", "pendingAppointments",
    "cancelledAppointments", "totalPatients", "statusPercentages" }

PatientFields ==
  { "totalAppointments", "confirmedAppointments", "pendingAppointments",
    "cancelledAppointments", "totalDoctors", "specialties", "statusPercentages" }

\* C30: getDoctorStatistics(d) returns, field by field, what
\* getGeneralStatistics returns on the appointments of doctor d, and
\* getPatientStatistics(p) what it returns on the appointments of patient p;
\* the totals of all doctors, and of all patients, add up to the general
\* total.
C30_PerUserStatisticsRefineGeneral ==
  \A p \in Procs :
    (pc[p] = "done" /\ ~op[p].thrown)
    => /\ op[p].kind = "getDoctorStatistics"
          => LET g == getGeneralStatistics(SubCollection("doctorId", op[p].userId))
             IN /\ DOMAIN op[p].result = DoctorFields
                /\ \A f \in DoctorFields : op[p].result[f] = g[f]
       /\ op[p].kind = "getPatientStatistics"
          => LET g == getGeneralStatistics(SubCollection("patientId", op[p].userId))
             IN /\ DOMAIN op[p].result = PatientFields
                /\ \A f \in PatientFields : op[p].result[f] = g[f]
       /\ op[p].kind = "getGeneralStatistics"
          => /\ SumOver([d \in ValuesOf("doctorId") |->
                          getDoctorStatistics(Appointments, d).totalAppointments],
                        ValuesOf("doctorId"))
                  = op[p].result.totalAppointments
             /\ SumOver([u \in ValuesOf("patientId") |->
                          getPatientStatistics(Appointments, u).totalAppointments],
                        ValuesOf("patientId"))
                  = op[p].result.totalAppointments

C30_Witness ==
  /\ pc[1] = "done"
  /\ op[1].kind = "getDoctorStatistics"
  /\ op[1].result.totalAppointments >= 2
  /\ op[1].result.totalAppointments < Len(Appointments)
  /\ op[1].result.totalPatients = 2
  /\ op[1].result.cancelledAppointments >= 1
  /\ op[1].result.confirmedAppointments >= 1

====
